---- MODULE Spec2Model ----
(***************************************************************************)
(* Model of scrape_park_brochures.py: the brochure Locator, the field      *)
(* parser, the scrape_parks orchestrator, the two sinks and main().         *)
(*                                                                         *)
(* Strings are sequences of atoms (a Python str split at fixed places), so *)
(* that startswith / endswith / replace / concatenation are computed and   *)
(* not assumed.                                                            *)
(***************************************************************************)
EXTENDS Integers, Sequences, FiniteSets, TLC

\* ------------------------------------------------------------------ bounds
NumParks == 3        \* how many entries of PARK_CODES the runs iterate over
MaxHrefLen == 4      \* atoms in an href of the listing page
MaxTextLen == 3      \* label sites in a brochure text
MaxRecords == 2      \* records in the list handed to the sinks
MaxClock == 2        \* seconds the wall clock may advance

VARIABLES
    \* scrape_parks / find_brochure_url / main
    limit, idx, count, pc, results, brochure_url, pdf_content, text,
    page, probeK, probes,
    estate, attempted, succeeded, delays,
    jsonFile, jsonTried, sheetsTried,
    \* write_to_google_sheets
    sheet, clock, writes, firstSheet,
    \* parse_park_info
    ptext, pnow, pinfo,
    \* href resolution
    uhref, ucode, uresult

orchVars == <<limit, idx, count, pc, results, brochure_url, pdf_content, text,
              page, probeK, probes,
              estate, attempted, succeeded, delays,
              jsonFile, jsonTried, sheetsTried>>
sinkVars == <<sheet, clock, writes, firstSheet>>
parseVars == <<ptext, pnow, pinfo>>
urlVars == <<uhref, ucode, uresult>>
vars == <<orchVars, sinkVars, parseVars, urlVars>>

\* ------------------------------------------------------- string helpers
\* None, '' and b'' are all the empty sequence: the code tests them with "not x"
None == <<>>

\* Python's "not x" on a str, bytes or None
Falsy(x) == x = <<>>

StartsWith(s, p) == Len(s) >= Len(p) /\ SubSeq(s, 1, Len(p)) = p

EndsWith(s, p) == Len(s) >= Len(p) /\ SubSeq(s, Len(s) - Len(p) + 1, Len(s)) = p

RECURSIVE Replace(_, _, _)
\* str.replace(old, new) for a one-atom old
Replace(s, old, new) ==
    IF s = <<>> THEN <<>>
    ELSE (IF Head(s) = old THEN <<new>> ELSE <<Head(s)>>) \o Replace(Tail(s), old, new)

RECURSIVE SeqsUpTo(_, _)
\* all sequences over S of length at most n
SeqsUpTo(S, n) ==
    IF n = 0 THEN {<<>>}
    ELSE LET shorter == SeqsUpTo(S, n - 1)
         IN shorter \cup {Append(s, x) : s \in shorter, x \in S}

\* ------------------------------------------------------------ the catalog
PARK_CODES ==
    << <<"yell", <<"Yellowstone">> >>,
       <<"yose", <<"Yosemite">> >>,
       <<"grca", <<"Grand", " ", "Canyon">> >>,
       <<"zion", <<"Zion">> >>,
       <<"acad", <<"Acadia">> >> >>

Catalog == SubSeq(PARK_CODES, 1, NumParks)
Parks == 1..Len(Catalog)
ParkCode(e) == Catalog[e][1]
ParkName(e) == Catalog[e][2]

\* ----------------------------------------------------- find_brochure_url
\* the four guessed templates, in the order they are probed
Patterns(park_code, park_name) ==
    LET slug == Replace(park_name, " ", "-")
    IN << <<"http", "s", "://", "www.nps.gov", "/", park_code, "/", "planyourvisit", "/", "upload", "/">>
             \o slug \o <<"-Brochure", ".pdf">>,
          <<"http", "s", "://", "www.nps.gov", "/", park_code, "/", "planyourvisit", "/", "upload", "/">>
             \o slug \o <<"-brochure", ".pdf">>,
          <<"http", "s", "://", "www.nps.gov", "/", park_code, "/", "learn", "/", "upload", "/">>
             \o slug \o <<"-Brochure", ".pdf">>,
          <<"http", "s", "://", "home.nps.gov", "/", park_code, "/", "planyourvisit", "/", "upload", "/">>
             \o slug \o <<"-Brochure", ".pdf">> >>

BrochurePage(park_code) ==
    <<"http", "s", "://", "www.nps.gov", "/", park_code, "/", "planyourvisit", "/", "brochures.htm">>

\* re.findall(r'href="([^"]*\.pdf)"', response.text): the href values that end in .pdf
PdfLinks(hrefs) == SelectSeq(hrefs, LAMBDA h : EndsWith(h, <<".pdf">>))

\* lines 116-119: what is returned for the first pdf link
ResolvePdfUrl(park_code, pdf_url) ==
    IF ~StartsWith(pdf_url, <<"http">>)
    THEN IF StartsWith(pdf_url, <<"/">>)
         THEN <<"http", "s", "://", "www.nps.gov">> \o pdf_url
         ELSE <<"http", "s", "://", "www.nps.gov", "/", park_code, "/", "planyourvisit", "/">> \o pdf_url
    ELSE pdf_url


\* -------------------------------------------------------- parse_park_info
\* A brochure text is the sequence of its match sites, in text order.  A year
\* site is a word followed by [:\s]+, an optional "in", and four digits; a
\* state site is a state name; a size site is a number followed by a unit.
YearSite(w, d) == [kind |-> "year", word |-> w, digits |-> d]
StateSite(w) == [kind |-> "state", word |-> w, digits |-> <<>>]
SizeSite(w) == [kind |-> "size", word |-> w, digits |-> <<>>]

\* the three year_patterns, in order: the words each one matches
year_patterns ==
    << {"Established", "established"},
       {"Designated", "designated"},
       {"Created", "created"} >>

size_patterns == << "acres", "square miles", "hectares" >>

\* int(year) of a four-digit group
YearInt(d) == d[1] * 1000 + d[2] * 100 + d[3] * 10 + d[4]

\* re.search: the position of the leftmost site that matches, 0 for no match;
\* hits[i] tells whether the pattern matches at site i
SearchSite(hits) ==
    IF \E i \in 1..Len(hits) : hits[i]
    THEN CHOOSE i \in 1..Len(hits) : hits[i] /\ \A j \in 1..(i - 1) : ~hits[j]
    ELSE 0

SearchYear(t, k) ==
    SearchSite([i \in 1..Len(t) |-> t[i].kind = "year" /\ t[i].word \in year_patterns[k]])

\* line 216 without the upper end of the range
YearAcceptedNoUpperEnd(y, now) == 1850 <= y

\* line 216: 1850 <= int(year) <= datetime.now().year
YearAccepted(y, now) == 1850 <= y /\ y <= now

RECURSIVE EstablishedYearFrom(_, _, _)
\* lines 212-218: the loop over year_patterns from pattern k on
EstablishedYearFrom(t, now, k) ==
    IF k > Len(year_patterns) THEN <<>>
    ELSE LET m == SearchYear(t, k)
         IN IF m # 0 /\ YearAccepted(YearInt(t[m].digits), now)
            THEN t[m].digits
            ELSE EstablishedYearFrom(t, now, k + 1)

RECURSIVE SizeFrom(_, _)
\* lines 226-230: the loop over size_patterns from pattern k on
SizeFrom(t, k) ==
    IF k > Len(size_patterns) THEN ""
    ELSE LET m == SearchSite([i \in 1..Len(t) |-> t[i].kind = "size" /\ t[i].word = size_patterns[k]])
         IN IF m # 0 THEN t[m].word ELSE SizeFrom(t, k + 1)

\* lines 201-204
StateOf(t) ==
    LET m == SearchSite([i \in 1..Len(t) |-> t[i].kind = "state"])
    IN IF m # 0 THEN t[m].word ELSE ""

\* lines 193-232
parse_park_info(t, park_name, now) ==
    [park_name |-> park_name,
     state |-> StateOf(t),
     established_year |-> EstablishedYearFrom(t, now, 1),
     size |-> SizeFrom(t, 1)]


\* ------------------------------------------------------------ environment
\* what the listing page can answer: the request raises (timeout, connection
\* error), answers with another status, or answers 200 with these href values
SampleHrefs ==
    [htm |-> <<"index.htm">>,
     rooted |-> <<"/", "files", "/", "doc", ".pdf">>,
     relative |-> <<"doc", ".pdf">>,
     absolute |-> <<"http", "s", "://", "www.nps.gov", "/", "doc", ".pdf">>]

PageAnswers ==
    { [status |-> 0, hrefs |-> <<>>],                       \* the request raised
      [status |-> 404, hrefs |-> <<>>],
      [status |-> 200, hrefs |-> <<SampleHrefs.htm>>],
      [status |-> 200, hrefs |-> <<SampleHrefs.htm, SampleHrefs.rooted, SampleHrefs.relative>>],
      [status |-> 200, hrefs |-> <<SampleHrefs.relative, SampleHrefs.absolute>>],
      [status |-> 404, hrefs |-> <<SampleHrefs.rooted>>] }

\* what a HEAD probe can answer: 0 stands for a raised exception
ProbeAnswers == {0, 200, 404}

\* what a download can answer: raised (status 0) or an answer with a content
\* type and a body
DownloadAnswers ==
    { [status |-> 0, pdf_type |-> FALSE, content |-> <<>>],
      [status |-> 200, pdf_type |-> TRUE, content |-> <<"%PDF">>],
      [status |-> 200, pdf_type |-> FALSE, content |-> <<"%PDF">>],
      [status |-> 200, pdf_type |-> TRUE, content |-> <<>>] }

\* what the extractor can return: '' (parsing failed or no page) or a text
Digits(y) == << y \div 1000, (y \div 100) % 10, (y \div 10) % 10, y % 10 >>

SampleTexts ==
    { << YearSite("Designated", Digits(1776)), YearSite("Created", Digits(1872)),
         StateSite("Wyoming"), SizeSite("square miles") >> }

ExtractAnswers == {<<>>} \cup SampleTexts

Limits == (0 - 1)..(NumParks + 1)


\* ----------------------------------------------------------- scrape_parks
Steps == {"locate", "download", "extract", "parse"}

\* line 286: text[:500]
PreviewLen == 500
Preview(t) == SubSeq(t, 1, IF Len(t) < PreviewLen THEN Len(t) ELSE PreviewLen)

\* line 250 with > for >=
LimitReachedOffByOne(c, l) == c > l

\* line 250: if count >= limit: break
LimitReached(c, l) == c >= l

\* a loop that does not move on after an entity
NextIndexStuck(i) == i

\* line 249: the for loop moves to the next catalog entry
NextIndex(i) == i + 1

\* the locator, download, extractor and sink groups an orchestrator step leaves alone
IdleOthers == UNCHANGED <<sinkVars, parseVars, urlVars>>

\* "continue" of lines 261, 270, 279, 303: the entity is given up
Skip ==
    /\ estate' = [estate EXCEPT ![idx] = "skipped"]
    /\ idx' = NextIndex(idx)
    /\ pc' = "loop"

\* lines 249-253: the loop head; the loop ends when the catalog is exhausted
\* or the limit is reached, and scrape_parks returns (lines 305-307)
LoopHead ==
    /\ pc = "loop"
    /\ IF idx > Len(Catalog) \/ LimitReached(count, limit)
       THEN pc' = "save_json" /\ UNCHANGED attempted
       ELSE pc' = "find_page" /\ attempted' = Append(attempted, idx)
    \* the locals of the iteration before are dead from here on
    /\ page' = None /\ probes' = <<>> /\ probeK' = 1
    /\ brochure_url' = None /\ pdf_content' = None /\ text' = None
    /\ UNCHANGED <<limit, idx, count, results, estate, succeeded, delays,
                   jsonFile, jsonTried, sheetsTried>>
    /\ IdleOthers

\* lines 257-263 once find_brochure_url has returned url
Located(url) ==
    /\ brochure_url' = url
    /\ succeeded' = IF url # None
                    THEN [succeeded EXCEPT ![idx] = @ \cup {"locate"}]
                    ELSE succeeded
    /\ IF Falsy(url)
       THEN Skip
       ELSE /\ estate' = [estate EXCEPT ![idx] = "located"]
            /\ pc' = "download"
            /\ UNCHANGED idx

\* line 111 without the status test
PageYieldsIgnoringStatus(answer) == PdfLinks(answer.hrefs) # <<>>

\* lines 111-114: the listing page answered 200 and holds a pdf link
PageYields(answer) == answer.status = 200 /\ PdfLinks(answer.hrefs) # <<>>

\* lines 107-121: step 1 of find_brochure_url
FetchListingPage ==
    /\ pc = "find_page"
    /\ \E answer \in PageAnswers :
          \* what step 1 really found, whatever the code makes of it
          /\ page' = IF answer.status = 200
                        /\ \E i \in 1..Len(answer.hrefs) : EndsWith(answer.hrefs[i], <<".pdf">>)
                     THEN <<"link">>
                     ELSE <<"nothing">>
          /\ IF PageYields(answer)
             THEN Located(ResolvePdfUrl(ParkCode(idx), PdfLinks(answer.hrefs)[1]))
             ELSE /\ pc' = "probe"
                  /\ UNCHANGED <<brochure_url, succeeded, estate, idx>>
    /\ UNCHANGED <<limit, count, results, pdf_content, text, probeK, probes,
                   attempted, delays, jsonFile, jsonTried, sheetsTried>>
    /\ IdleOthers

\* line 127: if response.status_code == 200
ProbeSucceeded(status) == status = 200

\* lines 124-132: one pass of the probe loop; None after the last template
ProbePattern ==
    /\ pc = "probe"
    /\ LET patterns == Patterns(ParkCode(idx), ParkName(idx))
       IN IF probeK > Len(patterns)
          THEN /\ Located(None)
               /\ UNCHANGED <<probes, probeK>>
          ELSE \E status \in ProbeAnswers :
                  /\ probes' = Append(probes, <<probeK, status = 200>>)
                  /\ IF ProbeSucceeded(status)
                     THEN /\ Located(patterns[probeK])
                          /\ UNCHANGED probeK
                     ELSE /\ probeK' = probeK + 1
                          /\ UNCHANGED <<pc, brochure_url, succeeded, estate, idx>>
    /\ UNCHANGED <<limit, count, results, pdf_content, text, page,
                   attempted, delays, jsonFile, jsonTried, sheetsTried>>
    /\ IdleOthers

\* lines 144-157
download_pdf(url, answer) ==
    IF answer.status # 200 THEN None
    ELSE IF ~answer.pdf_type /\ ~EndsWith(url, <<".pdf">>) THEN None
    ELSE answer.content

\* lines 268-270 with the test dropped
DownloadFailedNever(content) == FALSE

\* line 268: if not pdf_content
DownloadFailed(content) == Falsy(content)

\* lines 266-272
DownloadStep ==
    /\ pc = "download"
    /\ \E answer \in DownloadAnswers :
          LET content == download_pdf(brochure_url, answer)
          IN /\ pdf_content' = content
             /\ succeeded' = IF content # None
                             THEN [succeeded EXCEPT ![idx] = @ \cup {"download"}]
                             ELSE succeeded
             /\ IF DownloadFailed(content)
                THEN Skip
                ELSE /\ estate' = [estate EXCEPT ![idx] = "downloaded"]
                     /\ pc' = "extract"
                     /\ UNCHANGED idx
    /\ UNCHANGED <<limit, count, results, brochure_url, text, page, probeK, probes,
                   attempted, delays, jsonFile, jsonTried, sheetsTried>>
    /\ IdleOthers

\* lines 277-279 with the test dropped
TextMissingNever(t) == FALSE

\* line 277: if not text
TextMissing(t) == Falsy(t)

\* lines 275-281; extract_text_from_pdf (lines 169-180) returns '' when parsing raises
ExtractStep ==
    /\ pc = "extract"
    /\ \E t \in ExtractAnswers :
          /\ text' = t
          /\ succeeded' = IF t # <<>>
                          THEN [succeeded EXCEPT ![idx] = @ \cup {"extract"}]
                          ELSE succeeded
          /\ IF TextMissing(t)
             THEN Skip
             ELSE /\ estate' = [estate EXCEPT ![idx] = "text_extracted"]
                  /\ pc' = "parse"
                  /\ UNCHANGED idx
    /\ UNCHANGED <<limit, count, results, brochure_url, pdf_content, page, probeK, probes,
                   attempted, delays, jsonFile, jsonTried, sheetsTried>>
    /\ IdleOthers

\* lines 284-286: the record of the current entity
CurrentInfo ==
    LET info == parse_park_info(text, ParkName(idx), pnow)
    IN [park_name |-> info.park_name,
        state |-> info.state,
        established_year |-> info.established_year,
        size |-> info.size,
        brochure_url |-> brochure_url,
        text_preview |-> Preview(text)]

\* lines 284-286
ParseStep ==
    /\ pc = "parse"
    /\ estate' = [estate EXCEPT ![idx] = "parsed"]
    /\ succeeded' = [succeeded EXCEPT ![idx] = @ \cup {"parse"}]
    /\ pc' = "record"
    /\ UNCHANGED <<limit, idx, count, results, brochure_url, pdf_content, text,
                   page, probeK, probes, attempted, delays,
                   jsonFile, jsonTried, sheetsTried>>
    /\ IdleOthers

\* lines 301-303: an exception inside the try block while parsing
ParseRaises ==
    /\ pc = "parse"
    /\ Skip
    /\ UNCHANGED <<limit, count, results, brochure_url, pdf_content, text,
                   page, probeK, probes, attempted, succeeded, delays,
                   jsonFile, jsonTried, sheetsTried>>
    /\ IdleOthers

\* a record put at the head of the list
PrependRecord(res, info) == <<info>> \o res

\* line 288: self.results.append(info)
AppendRecord(res, info) == Append(res, info)

\* lines 288-299: append, count, and the test for the pacing delay
RecordStep ==
    /\ pc = "record"
    /\ results' = AppendRecord(results, CurrentInfo)
    /\ count' = count + 1
    /\ estate' = [estate EXCEPT ![idx] = "recorded"]
    /\ IF count + 1 < limit
       THEN pc' = "sleep" /\ UNCHANGED idx
       ELSE pc' = "loop" /\ idx' = NextIndex(idx)
    /\ UNCHANGED <<limit, brochure_url, pdf_content, text, page, probeK, probes,
                   attempted, succeeded, delays, jsonFile, jsonTried, sheetsTried>>
    /\ IdleOthers

\* line 299: time.sleep(self.delay_seconds)
SleepStep ==
    /\ pc = "sleep"
    /\ delays' = delays + 1
    /\ idx' = NextIndex(idx)
    /\ pc' = "loop"
    /\ UNCHANGED <<limit, count, results, brochure_url, pdf_content, text,
                   page, probeK, probes, estate, attempted, succeeded,
                   jsonFile, jsonTried, sheetsTried>>
    /\ IdleOthers


\* ------------------------------------------------------------------ sinks
\* the wall clock counts half seconds; strftime('%Y-%m-%d %H:%M:%S') keeps whole seconds
Strftime(c) == c \div 2

\* line 335
headers == <<"Park Name", "State", "Established Year", "Size", "Brochure URL", "Scraped Date">>

\* lines 339-346: the row of one record, stamped with the time of the write
Row(result, now) ==
    <<result.park_name, result.state, result.established_year, result.size,
      result.brochure_url, Strftime(now)>>

\* lines 336-347: the rows handed to worksheet.update
SheetData(res, now) == <<headers>> \o [i \in 1..Len(res) |-> Row(res[i], now)]

\* worksheet.clear()
ClearRows(rows) == <<>>

\* worksheet.update('A1', data): data is laid over the cells from A1 on; the
\* cells it does not cover keep their values
UpdateA1(rows, data) ==
    [i \in 1..(IF Len(rows) > Len(data) THEN Len(rows) ELSE Len(data)) |->
        IF i > Len(data) THEN rows[i]
        ELSE IF i > Len(rows) THEN data[i]
        ELSE [j \in 1..(IF Len(rows[i]) > Len(data[i]) THEN Len(rows[i]) ELSE Len(data[i])) |->
                 IF j <= Len(data[i]) THEN data[i][j] ELSE rows[i][j]]]

SheetOutcomes == {"auth_error", "clear_error", "update_error", "ok"}

\* lines 316-358: the tab after the call; every exception is caught at line 356
write_to_google_sheets(tab, res, now, outcome) ==
    IF outcome = "auth_error" THEN tab
    ELSE LET rows == IF tab.exists THEN tab.rows ELSE <<>>      \* lines 329-332
         IN IF outcome = "clear_error" THEN [exists |-> TRUE, rows |-> rows]
            ELSE IF outcome = "update_error" THEN [exists |-> TRUE, rows |-> ClearRows(rows)]
            ELSE [exists |-> TRUE, rows |-> UpdateA1(ClearRows(rows), SheetData(res, now))]

JsonOutcomes == {"open_error", "dump_error", "ok"}

\* lines 367-372: the file after the call; open(filename, 'w') truncates
save_results_json(file, res, outcome) ==
    IF outcome = "open_error" THEN file
    ELSE IF outcome = "dump_error" THEN [exists |-> TRUE, data |-> <<>>]
    ELSE [exists |-> TRUE, data |-> res]

\* one call of write_to_google_sheets, with the bookkeeping of successive calls
SheetsCall(outcome) ==
    /\ sheet' = write_to_google_sheets(sheet, results, clock, outcome)
    /\ writes' = IF outcome = "ok" THEN (IF writes < 2 THEN writes + 1 ELSE 2) ELSE 0
    /\ firstSheet' = IF outcome # "ok" THEN <<>>
                     ELSE IF writes = 0 THEN <<sheet'>>
                     ELSE firstSheet

\* an exception of save_results_json that reaches main
JsonNextPcUncaught(outcome) == IF outcome = "ok" THEN "sheets" ELSE "crashed"

\* lines 367-372: the except clause swallows the error and main goes on
JsonNextPc(outcome) == "sheets"

\* line 390
SaveJsonStep ==
    /\ pc = "save_json"
    /\ \E outcome \in JsonOutcomes :
          /\ jsonFile' = save_results_json(jsonFile, results, outcome)
          /\ jsonTried' = <<[data |-> results, outcome |-> outcome]>>
          /\ pc' = JsonNextPc(outcome)
    /\ UNCHANGED <<limit, idx, count, results, brochure_url, pdf_content, text,
                   page, probeK, probes, estate, attempted, succeeded, delays,
                   sheetsTried>>
    /\ IdleOthers

\* lines 393-400
MainSheetsStep ==
    /\ pc = "sheets"
    /\ IF ~Falsy(results)
       THEN \E outcome \in SheetOutcomes :
               /\ SheetsCall(outcome)
               /\ sheetsTried' = <<[data |-> results, outcome |-> outcome]>>
       ELSE UNCHANGED <<sheet, writes, firstSheet, sheetsTried>>
    /\ pc' = "complete"
    /\ UNCHANGED <<limit, idx, count, results, brochure_url, pdf_content, text,
                   page, probeK, probes, estate, attempted, succeeded, delays,
                   jsonFile, jsonTried, clock>>
    /\ UNCHANGED <<parseVars, urlVars>>

\* ---------------------------------------------------- initial conditions
StaleRow == << <<"Old">>, "", <<>>, "", <<"old", ".pdf">>, 0, "note" >>

PriorSheets ==
    { [exists |-> FALSE, rows |-> <<>>],
      [exists |-> TRUE, rows |-> <<>>],
      [exists |-> TRUE, rows |-> <<headers, StaleRow, StaleRow, StaleRow, StaleRow>>] }

OrchIdle ==
    /\ limit = 0 /\ idx = 1 /\ count = 0 /\ pc = "idle" /\ results = <<>>
    /\ brochure_url = None /\ pdf_content = None /\ text = None
    /\ page = None /\ probeK = 1 /\ probes = <<>>
    /\ estate = [e \in Parks |-> "not_started"]
    /\ attempted = <<>>
    /\ succeeded = [e \in Parks |-> {}]
    /\ delays = 0
    /\ jsonFile = [exists |-> FALSE, data |-> <<>>]
    /\ jsonTried = <<>> /\ sheetsTried = <<>>

SinkIdle ==
    /\ sheet = [exists |-> TRUE, rows |-> <<headers, StaleRow, StaleRow, StaleRow, StaleRow>>]
    /\ clock = 0 /\ writes = 0 /\ firstSheet = <<>>

ParseIdle == ptext = <<>> /\ pnow = 2026 /\ pinfo = <<>>

UrlIdle == uhref = <<>> /\ ucode = "" /\ uresult = <<>>

\* the state after NationalParksScraper() (lines 71-85) when main calls scrape_parks
Init ==
    /\ limit \in Limits
    /\ idx = 1 /\ count = 0 /\ pc = "loop" /\ results = <<>>
    /\ brochure_url = None /\ pdf_content = None /\ text = None
    /\ page = None /\ probeK = 1 /\ probes = <<>>
    /\ estate = [e \in Parks |-> "not_started"]
    /\ attempted = <<>>
    /\ succeeded = [e \in Parks |-> {}]
    /\ delays = 0
    /\ jsonFile = [exists |-> FALSE, data |-> <<>>]
    /\ jsonTried = <<>> /\ sheetsTried = <<>>
    /\ SinkIdle /\ ParseIdle /\ UrlIdle

\* one call of scrape_parks, up to its return
ScrapeNext ==
    \/ LoopHead
    \/ FetchListingPage
    \/ ProbePattern
    \/ DownloadStep
    \/ ExtractStep
    \/ ParseStep
    \/ ParseRaises
    \/ RecordStep
    \/ SleepStep

\* main: scrape_parks, then the two sinks
Next ==
    \/ ScrapeNext
    \/ SaveJsonStep
    \/ MainSheetsStep

Spec == Init /\ [][Next]_vars

\* scrape_parks on its own. The script is one thread that keeps running and
\* every network call returns or fails within its timeout (lines 109, 126,
\* 145), so a step that can be taken is taken
FairScrapeSpec == Init /\ [][ScrapeNext]_vars /\ WF_vars(ScrapeNext)


\* ------------------------------------------- the sink called on its own
\* the records the sinks are handed: what scrape_parks appends (lines 284-288)
SinkRecords ==
    { [park_name |-> ParkName(e),
       state |-> parse_park_info(t, ParkName(e), 2026).state,
       established_year |-> parse_park_info(t, ParkName(e), 2026).established_year,
       size |-> parse_park_info(t, ParkName(e), 2026).size,
       brochure_url |-> Patterns(ParkCode(e), ParkName(e))[1],
       text_preview |-> Preview(t)] : e \in {1, 2}, t \in SampleTexts }

SinkInit ==
    /\ limit = 0 /\ idx = 1 /\ count = 0 /\ pc = "sink"
    /\ results \in SeqsUpTo(SinkRecords, MaxRecords)
    /\ brochure_url = None /\ pdf_content = None /\ text = None
    /\ page = None /\ probeK = 1 /\ probes = <<>>
    /\ estate = [e \in Parks |-> "not_started"]
    /\ attempted = <<>>
    /\ succeeded = [e \in Parks |-> {}]
    /\ delays = 0
    /\ jsonFile = [exists |-> FALSE, data |-> <<>>]
    /\ jsonTried = <<>> /\ sheetsTried = <<>>
    /\ sheet \in PriorSheets
    /\ clock = 0 /\ writes = 0 /\ firstSheet = <<>>
    /\ ParseIdle /\ UrlIdle

\* time passes between two calls
Tick ==
    /\ pc = "sink"
    /\ clock < MaxClock
    /\ clock' = clock + 1
    /\ UNCHANGED <<orchVars, sheet, writes, firstSheet, parseVars, urlVars>>

\* lines 309-358: one call of write_to_google_sheets
WriteToGoogleSheets ==
    /\ pc = "sink"
    /\ \E outcome \in SheetOutcomes : SheetsCall(outcome)
    /\ UNCHANGED <<orchVars, clock, parseVars, urlVars>>

SinkNext == Tick \/ WriteToGoogleSheets

SinkSpec == SinkInit /\ [][SinkNext]_vars

\* ------------------------------------------- the parser called on its own
ParseWords == {"Established", "Designated", "Created", "ESTABLISHED"}

ParseYears == {1849, 1850, 2026}

ParseSites ==
    {YearSite(w, Digits(y)) : w \in ParseWords, y \in ParseYears}
        \cup {StateSite("Utah"), SizeSite("acres"), SizeSite("hectares")}

ParseInit ==
    /\ OrchIdle /\ SinkIdle /\ UrlIdle
    /\ ptext \in SeqsUpTo(ParseSites, MaxTextLen)
    /\ pnow \in {2025, 2026}
    /\ pinfo = <<>>

\* lines 182-232: one call of parse_park_info
ParseCall ==
    /\ pinfo = <<>>
    /\ pinfo' = <<parse_park_info(ptext, ParkName(1), pnow)>>
    /\ UNCHANGED <<orchVars, sinkVars, ptext, pnow, urlVars>>

ParseNext == ParseCall

ParseSpec == ParseInit /\ [][ParseNext]_vars

\* ---------------------------------- the href resolution called on its own
HrefAtoms == {"http", "s", "://", "/", "doc", ".pdf"}

\* the hrefs the regex of line 113 can capture: anything that ends in .pdf
Hrefs == {Append(h, ".pdf") : h \in SeqsUpTo(HrefAtoms, MaxHrefLen - 1)}

UrlInit ==
    /\ OrchIdle /\ SinkIdle /\ ParseIdle
    /\ uhref \in Hrefs
    /\ ucode \in {ParkCode(e) : e \in Parks}
    /\ uresult = <<>>

\* lines 116-119 on the first pdf link of the listing page
ResolveCall ==
    /\ uresult = <<>>
    /\ uresult' = ResolvePdfUrl(ucode, uhref)
    /\ UNCHANGED <<orchVars, sinkVars, parseVars, uhref, ucode>>

UrlNext == ResolveCall

UrlSpec == UrlInit /\ [][UrlNext]_vars

\* ------------------------------------------------------------ properties
\* scrape_parks has returned to main
Returned == pc \in {"save_json", "sheets", "complete"}

InProgress == pc \in {"find_page", "probe", "download", "extract", "parse", "record", "sleep"}

NumIn(S, st) == Cardinality({e \in S : estate[e] = st})

\* C1 as stated: with 0 < limit < catalog size, a finished run has attempted
\* exactly limit entities, all among the first limit catalog entries
C1_ExactlyLimitAttempts ==
    (Returned /\ 0 < limit /\ limit < Len(Catalog)) =>
        /\ Len(attempted) = limit
        /\ \A i \in 1..Len(attempted) : attempted[i] <= limit

\* C1 amended: with 0 < limit < catalog size, entities are attempted in catalog
\* order until limit of them are recorded or the catalog is exhausted; skipped
\* entities do not count toward limit, so the attempts number the records plus
\* the skips, and no entity is attempted once limit records exist
C1_AttemptsUntilLimitRecorded ==
    (0 < limit /\ limit < Len(Catalog)) =>
        /\ attempted = [i \in 1..Len(attempted) |-> i]
        /\ count <= limit
        /\ Len(results) = count
        /\ count = NumIn(Parks, "recorded")
        /\ Len(attempted) = count + NumIn(Parks, "skipped")
                              + (IF InProgress /\ pc # "sleep" THEN 1 ELSE 0)
        /\ \A i \in 1..Len(attempted) : NumIn(1..(attempted[i] - 1), "recorded") < limit
        /\ Returned => (count = limit \/ Len(attempted) = Len(Catalog))

\* C1 witness: a finished run that made more attempts than limit
C1_Witness ==
    /\ Returned /\ 0 < limit /\ limit < Len(Catalog)
    /\ count = limit /\ Len(attempted) > limit

\* C2: every record of the result list belongs to an entity whose locate,
\* download, extraction and parse all succeeded, and carries its URL and text;
\* an entity with a failed step has no record
C2_SkipInvariant ==
    /\ \A i \in 1..Len(results) :
          /\ \E e \in Parks : ParkName(e) = results[i].park_name /\ succeeded[e] = Steps
          /\ results[i].brochure_url # None
          /\ results[i].text_preview # <<>>
    /\ \A e \in Parks :
          succeeded[e] # Steps =>
              \A i \in 1..Len(results) : results[i].park_name # ParkName(e)

\* C2 witness: a record was appended after an earlier entity failed at extraction
C2_Witness ==
    /\ Len(results) >= 1
    /\ \E e \in Parks : estate[e] = "skipped" /\ succeeded[e] = {"locate", "download"}
    /\ \E e \in Parks : estate[e] = "skipped" /\ succeeded[e] = {}

\* C3 as stated: a delay is taken only after a recorded entity and only when
\* another entity is processed after it, and at most limit-1 delays occur
C3_DelayOnlyBeforeAnotherEntity ==
    /\ pc = "sleep" =>
          /\ estate[idx] = "recorded"
          /\ count < limit
          /\ idx < Len(Catalog)
    /\ delays <= (IF limit >= 1 THEN limit - 1 ELSE 0)


\* C5 as stated: whatever the sinks' outcomes, a finished main has attempted
\* both sinks with all records
C5_BothSinksAlwaysAttempted ==
    pc = "complete" =>
        /\ jsonTried # <<>> /\ jsonTried[1].data = results
        /\ sheetsTried # <<>> /\ sheetsTried[1].data = results

\* C5 amended: no sink error reaches main; the JSON sink is always attempted
\* with all records; the tabular sink is attempted with all records exactly
\* when the result list is not empty, whatever the JSON sink's outcome; a
\* tabular failure leaves a written JSON backup as it is
C5_SinksIndependent ==
    /\ pc # "crashed"
    /\ pc \in {"sheets", "complete"} =>
          /\ jsonTried # <<>>
          /\ jsonTried[1].data = results
    /\ pc = "complete" =>
          /\ (sheetsTried # <<>>) <=> (results # <<>>)
          /\ sheetsTried # <<>> => sheetsTried[1].data = results
          /\ jsonTried[1].outcome = "ok" => jsonFile = [exists |-> TRUE, data |-> results]

\* C5 witness: the JSON sink failed and the tabular sink was still written
C5_Witness ==
    /\ pc = "complete"
    /\ jsonTried[1].outcome = "dump_error"
    /\ sheetsTried # <<>> /\ sheetsTried[1].outcome = "ok"
    /\ sheet.rows = SheetData(results, clock)

\* find_brochure_url has returned for the current entity
LocatorReturned == page # <<>> /\ pc \notin {"find_page", "probe"}

\* C6: step 1 comes first and a link found there is returned without a probe;
\* probes happen only when step 1 yielded nothing, in template order, each at
\* most once, and stop at the first success, whose template is returned;
\* not-found is returned exactly when step 1 yielded nothing and all probes failed
C6_LocatorOrdering ==
    /\ Len(probes) <= Len(Patterns(ParkCode(1), ParkName(1)))
    /\ \A i \in 1..Len(probes) : probes[i][1] = i
    /\ \A i \in 1..(Len(probes) - 1) : ~probes[i][2]
    /\ probes # <<>> => page = <<"nothing">>
    /\ pc = "probe" =>
          /\ page = <<"nothing">>
          /\ \A i \in 1..Len(probes) : ~probes[i][2]
          /\ probeK = Len(probes) + 1
    /\ LocatorReturned =>
          /\ page = <<"link">> =>
                /\ probes = <<>>
                /\ brochure_url \in
                     { <<"http", "s", "://", "www.nps.gov">> \o SampleHrefs.rooted,
                       <<"http", "s", "://", "www.nps.gov", "/",
                         ParkCode(attempted[Len(attempted)]), "/", "planyourvisit", "/">>
                          \o SampleHrefs.relative }
          /\ (page = <<"nothing">> /\ brochure_url # None) =>
                /\ probes # <<>>
                /\ probes[Len(probes)][2]
                /\ brochure_url =
                     Patterns(ParkCode(attempted[Len(attempted)]),
                              ParkName(attempted[Len(attempted)]))[Len(probes)]
          /\ brochure_url = None <=>
                /\ page = <<"nothing">>
                /\ Len(probes) = Len(Patterns(ParkCode(1), ParkName(1)))
                /\ \A i \in 1..Len(probes) : ~probes[i][2]

\* C6 witness: step 1 yielded nothing, two probes failed and the third template
\* was returned for a park whose name holds a space
C6_Witness ==
    /\ pc = "download"
    /\ page = <<"nothing">>
    /\ probes = << <<1, FALSE>>, <<2, FALSE>>, <<3, TRUE>> >>
    /\ brochure_url = <<"http", "s", "://", "www.nps.gov", "/", "grca", "/", "learn", "/",
                        "upload", "/", "Grand", "-", "Canyon", "-Brochure", ".pdf">>

\* what an entity in state st has behind it
StepsBehind(st) ==
    CASE st = "not_started" -> {}
      [] st = "located" -> {"locate"}
      [] st = "downloaded" -> {"locate", "download"}
      [] st = "text_extracted" -> {"locate", "download", "extract"}
      [] st = "parsed" -> Steps
      [] st = "recorded" -> Steps
      [] OTHER -> {}

EntityMoves ==
    { <<"not_started", "located">>, <<"located", "downloaded">>,
      <<"downloaded", "text_extracted">>, <<"text_extracted", "parsed">>,
      <<"parsed", "recorded">>,
      <<"not_started", "skipped">>, <<"located", "skipped">>,
      <<"downloaded", "skipped">>, <<"text_extracted", "skipped">> }

\* the step that runs next and the state it needs the entity in
StepNeeds ==
    [find_page |-> "not_started", probe |-> "not_started", download |-> "located",
     extract |-> "downloaded", parse |-> "text_extracted", record |-> "parsed",
     sleep |-> "recorded"]

EntityStateInv ==
    /\ InProgress => idx \in Parks /\ estate[idx] = StepNeeds[pc]
    /\ \A e \in Parks :
          /\ e < idx => estate[e] \in {"recorded", "skipped"}
          /\ e > idx => estate[e] = "not_started"
          /\ estate[e] # "skipped" => succeeded[e] = StepsBehind(estate[e])
          /\ estate[e] = "skipped" => succeeded[e] # Steps

EntityMoveOk ==
    \A e \in Parks :
        estate'[e] # estate[e] =>
            /\ e = idx
            /\ <<estate[e], estate'[e]>> \in EntityMoves
            /\ estate'[e] = "skipped" => (idx' = idx + 1 /\ pc' = "loop")

\* C9: an entity moves not-started, located, downloaded, text-extracted,
\* parsed, recorded in that order, each state resting on the steps that
\* succeeded; a failed step moves it to skipped, after which it never moves
\* again and the run goes on with the next entity; only the current entity
\* moves, those before it are terminal and those after it not started
C9_StepOrdering == []EntityStateInv /\ [][EntityMoveOk]_vars

\* C9 witness: the download of the first entity failed, no later step ran for
\* it and the second entity is being located
C9_Witness ==
    /\ estate[1] = "skipped" /\ succeeded[1] = {"locate"}
    /\ idx = 2 /\ pc = "probe" /\ attempted = <<1, 2>>

NoDuplicates(sq) == \A i, j \in 1..Len(sq) : i # j => sq[i] # sq[j]

\* C10: every run of scrape_parks returns; when it has, every attempted entity
\* is recorded or skipped, none was attempted twice and the attempts number at
\* most the catalog size
C10_Terminates ==
    /\ <>Returned
    /\ [](Returned =>
            /\ \A i \in 1..Len(attempted) : estate[attempted[i]] \in {"recorded", "skipped"}
            /\ NoDuplicates(attempted)
            /\ Len(attempted) <= Len(Catalog))

\* C10 witness: a finished run over the whole catalog with records and skips
C10_Witness ==
    /\ Returned
    /\ Len(attempted) = Len(Catalog)
    /\ NumIn(Parks, "recorded") >= 1 /\ NumIn(Parks, "skipped") >= 1


\* C4 as stated: after a successful write the tab holds the header row and one
\* row per record in list order and nothing else, and a second successful
\* write of the same list, at any later time, leaves every cell as the first did
C4_SecondWriteLeavesSameContents ==
    /\ writes >= 1 =>
          /\ Len(sheet.rows) = Len(results) + 1
          /\ sheet.rows[1] = headers
          /\ \A i \in 1..Len(results) :
                /\ Len(sheet.rows[i + 1]) = Len(headers)
                /\ SubSeq(sheet.rows[i + 1], 1, 5) =
                      <<results[i].park_name, results[i].state, results[i].established_year,
                        results[i].size, results[i].brochure_url>>
    /\ writes = 2 => <<sheet>> = firstSheet

\* the year the label of year_patterns[k] yields: the digits of its leftmost site
LabelYear(t, k) ==
    LET at == {i \in 1..Len(t) : t[i].kind = "year" /\ t[i].word \in year_patterns[k]}
    IN IF at = {} THEN <<>>
       ELSE t[CHOOSE i \in at : \A j \in at : i <= j].digits

LabelsInRange(t, now) ==
    {k \in 1..3 : LabelYear(t, k) # <<>>
                  /\ 1850 <= YearInt(LabelYear(t, k)) /\ YearInt(LabelYear(t, k)) <= now}

\* C7: the year returned is empty or four digits with 1850 <= y <= current
\* year; it is the match of the earliest of Established, Designated, Created
\* whose match is in range, and empty only when no label's match is in range
C7_YearRangeAndFallback ==
    pinfo # <<>> =>
        LET y == pinfo[1].established_year
            ok == LabelsInRange(ptext, pnow)
        IN /\ y # <<>> =>
                 /\ Len(y) = 4
                 /\ \A i \in 1..4 : y[i] \in 0..9
                 /\ 1850 <= YearInt(y) /\ YearInt(y) <= pnow
           /\ ok = {} <=> y = <<>>
           /\ ok # {} => y = LabelYear(ptext, CHOOSE k \in ok : \A j \in ok : k <= j)

\* C7 witness: the Established match is out of range and the Created match is returned
C7_Witness ==
    /\ pinfo # <<>>
    /\ ptext = << YearSite("Created", Digits(1850)), YearSite("Established", Digits(1849)) >>
    /\ pinfo[1].established_year = <<1, 8, 5, 0>>

\* an href with the scheme http or https
IsAbsoluteUrl(h) ==
    \/ StartsWith(h, <<"http", "://">>)
    \/ StartsWith(h, <<"http", "s", "://">>)

\* C8 as stated: an absolute href is returned unchanged, an href starting with
\* "/" is put after the site root, any other href after the listing page's directory
C8_ResolvedAsStated ==
    uresult # <<>> =>
        uresult = IF IsAbsoluteUrl(uhref) THEN uhref
                  ELSE IF uhref[1] = "/"
                       THEN <<"http", "s", "://", "www.nps.gov">> \o uhref
                       ELSE <<"http", "s", "://", "www.nps.gov", "/", ucode, "/",
                              "planyourvisit", "/">> \o uhref

\* the catalog position of the entity a record belongs to
ParkIndex(r) == CHOOSE e \in Parks : ParkName(e) = r.park_name

ResultsShapeInv ==
    /\ Len(results) <= (IF limit <= 0 THEN 0
                        ELSE IF limit < Len(Catalog) THEN limit ELSE Len(Catalog))
    /\ \A i \in 1..Len(results) : \E e \in Parks : ParkName(e) = results[i].park_name
    /\ \A i, j \in 1..Len(results) :
          i < j => ParkIndex(results[i]) < ParkIndex(results[j])
    /\ limit <= 0 => (attempted = <<>> /\ results = <<>>)

ResultsAppendOnly ==
    \/ results' = results
    \/ /\ Len(results') = Len(results) + 1
       /\ SubSeq(results', 1, Len(results)) = results

\* C11: in a run of scrape_parks on a fresh scraper the result list changes
\* only by a record appended at its end; its records are in catalog order, at
\* most one per entity; its length is at most min(max(limit, 0), catalog
\* size); with limit <= 0 nothing is attempted and the list stays empty
C11_ResultListShape == []ResultsShapeInv /\ [][ResultsAppendOnly]_vars

\* C11 witness: a finished run whose list holds the first and the third
\* entity, in that order, the second one having been skipped
C11_Witness ==
    /\ Returned
    /\ estate[1] = "recorded" /\ estate[2] = "skipped" /\ estate[3] = "recorded"
    /\ Len(results) = 2
    /\ results[1].park_name = ParkName(1) /\ results[2].park_name = ParkName(3)

====
